---------------------------- MODULE Spec2Model ----------------------------
(***************************************************************************)
(* A model of the in-memory filesystem of bwent/in-memory-fs.              *)
(*                                                                         *)
(* Go strings are sequences of one-character strings, so that splitting,   *)
(* trimming, joining and renaming are computed character by character.     *)
(* File and link objects live in two heaps indexed by address; address 0   *)
(* is Go's nil.  Every public method of Filesystem is one action; it       *)
(* leaves what the call returned in the variable ret, which the caller     *)
(* takes (PrintResults) before the next call.                              *)
(***************************************************************************)
EXTENDS Integers, Sequences, FiniteSets, TLC

VARIABLES
    files,              \* heap of util.File objects: address -> File
    linkObjs,           \* heap of util.SymLink / util.HardLink objects
    root,               \* Filesystem.root
    currentDirectory,   \* Filesystem.currentDirectory
    links,              \* Filesystem.links : link name -> address of a link object
    ret,                \* the call that has just returned: method, arguments, value, error
    calls,              \* how many calls the program has made
    limits,             \* the bounds of the run: File objects, link objects, calls
    trail               \* history: d1..dk when the calls so far end with MkDir(d1);Cd(d1);...

vars == <<files, linkObjs, root, currentDirectory, links, ret, calls, limits, trail>>

fsVars == <<files, linkObjs, root, currentDirectory, links>>

(***************************************************************************)
(* Bounds of the model.                                                    *)
(***************************************************************************)
\* how many File objects NewFile may allocate after the root
MaxFiles == 3
\* how many link objects NewSymLink / NewHardLink may allocate
MaxLinks == 2
\* how many calls a run makes
MaxCalls == 5
\* the same three bounds for the runs of SpecMoves, which move a file into a
\* directory that holds two files already
MaxMoveFiles == 4
MaxMoveLinks == 1
MaxMoveCalls == 6

(***************************************************************************)
(* Program constants.  The two size limits are scaled down (the source     *)
(* has 2000000 and 2000) so that contents can reach them; their order,     *)
(* MaxFileReadSize < MaxFileSize, is kept.                                 *)
(***************************************************************************)
MaxFileSize == 4
MaxFileReadSize == 2

\* Go's nil pointer
nil == 0


(***************************************************************************)
(* Strings.                                                                *)
(***************************************************************************)
\* strings.Split(s, sep) for a one-character separator
RECURSIVE Split(_, _)
Split(s, sep) ==
    IF \A i \in 1..Len(s) : s[i] # sep
    THEN <<s>>
    ELSE LET i == CHOOSE k \in 1..Len(s) :
                      s[k] = sep /\ \A j \in 1..(k - 1) : s[j] # sep
         IN  <<SubSeq(s, 1, i - 1)>> \o Split(SubSeq(s, i + 1, Len(s)), sep)

RECURSIVE TrimLeft(_, _)
TrimLeft(s, c) ==
    IF Len(s) > 0 /\ s[1] = c THEN TrimLeft(Tail(s), c) ELSE s

RECURSIVE TrimRight(_, _)
TrimRight(s, c) ==
    IF Len(s) > 0 /\ s[Len(s)] = c THEN TrimRight(SubSeq(s, 1, Len(s) - 1), c) ELSE s

\* strings.Trim(s, c) for a one-character cutset
Trim(s, c) == TrimRight(TrimLeft(s, c), c)

\* strings.TrimSpace; the space is the only white space of the model's alphabet
TrimSpace(s) == Trim(s, " ")

\* strings.Join
RECURSIVE Join(_, _)
Join(strs, sep) ==
    IF Len(strs) = 0 THEN <<>>
    ELSE IF Len(strs) = 1 THEN strs[1]
    ELSE strs[1] \o sep \o Join(Tail(strs), sep)

\* strings.ContainsRune
ContainsRune(s, c) == \E i \in 1..Len(s) : s[i] = c

\* a SplitPath that drops only the empty pieces
SplitPathKeepsBlank(path) ==
    SelectSeq(Split(path, "/"), LAMBDA p : Len(p) > 0)

\* util.SplitPath: the pieces between "/" that are not blank, kept untrimmed
SplitPath(path) ==
    SelectSeq(Split(path, "/"), LAMBDA p : Len(TrimSpace(p)) > 0)

\* a ModifyNameToHandleCollisions that puts "1" before the first "." of any name
ModifyNameBeforeFirstDot(name) ==
    LET nameSplit == Split(name, ".")
    IN  IF Len(nameSplit) >= 2
        THEN nameSplit[1] \o <<"1">> \o SubSeq(name, Len(nameSplit[1]) + 1, Len(name))
        ELSE name \o <<"1">>

\* a ModifyNameToHandleCollisions that transforms the name it has transformed
ModifyNameTwice(name) ==
    LET once(n) == LET nameSplit == Split(n, ".")
                   IN  IF Len(nameSplit) = 2
                       THEN nameSplit[1] \o <<"1", ".">> \o nameSplit[2]
                       ELSE n \o <<"1">>
    IN  once(once(name))

\* util.ModifyNameToHandleCollisions
ModifyNameToHandleCollisions(name) ==
    LET nameSplit == Split(name, ".")
    IN  IF Len(nameSplit) = 2
        THEN nameSplit[1] \o <<"1", ".">> \o nameSplit[2]
        ELSE name \o <<"1">>

\* a StringSliceToByteSlice that puts the space after every argument
RECURSIVE StringSliceSpaceAfterEach(_)
StringSliceSpaceAfterEach(strSlice) ==
    IF Len(strSlice) = 0 THEN <<>>
    ELSE strSlice[1] \o <<" ">> \o StringSliceSpaceAfterEach(Tail(strSlice))

\* util.StringSliceToByteSlice: the arguments with one space between them
RECURSIVE StringSliceToByteSlice(_)
StringSliceToByteSlice(strSlice) ==
    IF Len(strSlice) = 0 THEN <<>>
    ELSE LET n == Len(strSlice)
         IN  StringSliceToByteSlice(SubSeq(strSlice, 1, n - 1))
             \o (IF n > 1 THEN <<" ">> ELSE <<>>) \o strSlice[n]

(***************************************************************************)
(* Errors: the format string of the source and what fills it.              *)
(***************************************************************************)
Error(fmt, arg) == [fmt |-> fmt, arg |-> arg]

\* a nil error
NoError == Error("nil", <<>>)

\* a runtime panic: the call does not return and the program stops
Panic == Error("panic: runtime error: index out of range", <<>>)

(***************************************************************************)
(* util.File                                                               *)
(***************************************************************************)
\* a map with no key
EmptyMap == [x \in {} |-> nil]

MapDelete(m, k) == [x \in (DOMAIN m) \ {k} |-> m[x]]

MapSet(m, k, v) == [x \in (DOMAIN m) \cup {k} |-> IF x = k THEN v ELSE m[x]]

\* m[k] of a Go map of pointers: nil for a missing key
MapGet(m, k) == IF k \in DOMAIN m THEN m[k] ELSE nil

NewFile(name, isDir, parent) ==
    [name        |-> name,
     isDirectory |-> isDir,
     contents    |-> <<>>,
     children    |-> EmptyMap,
     parent      |-> parent,
     symlinks    |-> EmptyMap,
     hardLinks   |-> EmptyMap]

\* the address the next allocated File gets
NextFile(h) == Cardinality(DOMAIN h) + 1

GetChildByName(h, f, name) == MapGet(h[f].children, name)

\* an UpsertChild that keeps the child a name already has
UpsertChildKeepsExisting(h, f, name, file) ==
    IF name \in DOMAIN h[f].children THEN h
    ELSE [h EXCEPT ![f].children = MapSet(@, name, file)]

UpsertChild(h, f, name, file) ==
    [h EXCEPT ![f].children = MapSet(@, name, file)]

RemoveChild(h, f, name) ==
    [h EXCEPT ![f].children = MapDelete(@, name)]

\* a SetName that leaves the name as it was
SetNameSkipped(h, f, name) == h

\* a SetParent that forgets the assignment
SetParentSkipped(h, f, parent) == h

SetParent(h, f, parent) == [h EXCEPT ![f].parent = parent]

SetName(h, f, name) == [h EXCEPT ![f].name = name]

\* an ExistsInCurrentDir that takes a registered link name for a file too
ExistsInCurrentDirOrLinks(h, dir, name, isDir) ==
    \/ /\ GetChildByName(h, dir, name) # nil
       /\ h[GetChildByName(h, dir, name)].isDirectory = isDir
    \/ /\ ~isDir
       /\ name \in DOMAIN links

\* an ExistsInCurrentDir that does not look at the kind of the child
ExistsInCurrentDirAnyKind(h, dir, name, isDir) ==
    GetChildByName(h, dir, name) # nil

\* util.ExistsInCurrentDir
ExistsInCurrentDir(h, dir, name, isDir) ==
    /\ GetChildByName(h, dir, name) # nil
    /\ h[GetChildByName(h, dir, name)].isDirectory = isDir

\* a WriteFileData that appends before it checks the size
WriteFileDataAppendsFirst(h, f, data) ==
    LET totalSize == Len(h[f].contents) + Len(data)
    IN  [heap |-> [h EXCEPT ![f].contents = @ \o data],
         err  |-> IF totalSize > MaxFileSize
                  THEN Error("Exceeded max file size: size=%d, max=%d",
                             <<ToString(totalSize), ToString(MaxFileSize)>>)
                  ELSE NoError]

\* a WriteFileData that refuses the write that fills the file to the limit
WriteFileDataBelowLimit(h, f, data) ==
    LET totalSize == Len(h[f].contents) + Len(data)
    IN  IF totalSize >= MaxFileSize
        THEN [heap |-> h,
              err  |-> Error("Exceeded max file size: size=%d, max=%d",
                             <<ToString(totalSize), ToString(MaxFileSize)>>)]
        ELSE [heap |-> [h EXCEPT ![f].contents = @ \o data],
              err  |-> NoError]

\* a WriteFileData that puts the data before the contents
WriteFileDataPrepends(h, f, data) ==
    LET totalSize == Len(h[f].contents) + Len(data)
    IN  IF totalSize > MaxFileSize
        THEN [heap |-> h,
              err  |-> Error("Exceeded max file size: size=%d, max=%d",
                             <<ToString(totalSize), ToString(MaxFileSize)>>)]
        ELSE [heap |-> [h EXCEPT ![f].contents = data \o @],
              err  |-> NoError]

\* File.WriteFileData: the new heap and the error
WriteFileData(h, f, data) ==
    LET totalSize == Len(h[f].contents) + Len(data)
    IN  IF totalSize > MaxFileSize
        THEN [heap |-> h,
              err  |-> Error("Exceeded max file size: size=%d, max=%d",
                             <<ToString(totalSize), ToString(MaxFileSize)>>)]
        ELSE [heap |-> [h EXCEPT ![f].contents = @ \o data],
              err  |-> NoError]

(***************************************************************************)
(* util.WalkToEndOfPath: the File reached, or the error.  Indexing an      *)
(* empty pathSplit panics.                                                 *)
(***************************************************************************)
\* a loop that looks ".." up as a child at the root
RECURSIVE WalkLoopDotDotAtRootFails(_, _, _)
WalkLoopDotDotAtRootFails(h, pathSplit, wd) ==
    IF Len(pathSplit) = 0 THEN [file |-> wd, err |-> NoError]
    ELSE LET name == Head(pathSplit)
         IN  IF name = <<".", ".">> /\ h[wd].parent # nil
             THEN WalkLoopDotDotAtRootFails(h, Tail(pathSplit), h[wd].parent)
             ELSE IF ~ExistsInCurrentDir(h, wd, name, TRUE)
             THEN [file |-> nil, err |-> Error("Directory not found: %s", name)]
             ELSE WalkLoopDotDotAtRootFails(h, Tail(pathSplit), GetChildByName(h, wd, name))

RECURSIVE WalkLoop(_, _, _)
WalkLoop(h, pathSplit, wd) ==
    IF Len(pathSplit) = 0 THEN [file |-> wd, err |-> NoError]
    ELSE LET name == Head(pathSplit)
         IN  IF name = <<".", ".">>
             THEN WalkLoop(h, Tail(pathSplit),
                           IF h[wd].parent # nil THEN h[wd].parent ELSE wd)
             ELSE IF ~ExistsInCurrentDir(h, wd, name, TRUE)
             THEN [file |-> nil, err |-> Error("Directory not found: %s", name)]
             ELSE WalkLoop(h, Tail(pathSplit), GetChildByName(h, wd, name))

WalkToEndOfPath(h, pathSplit, cwd, rootDir) ==
    IF Len(pathSplit) = 0 THEN [file |-> nil, err |-> Panic]
    ELSE IF pathSplit[1] = <<"~">>
    THEN WalkLoop(h, Tail(pathSplit), rootDir)
    ELSE WalkLoop(h, pathSplit, cwd)

(***************************************************************************)
(* Filesystem                                                              *)
(***************************************************************************)
\* a ResolveLinks that gives way to a child of the current directory
ResolveLinksAfterChildren(name) ==
    IF name \in DOMAIN files[currentDirectory].children THEN nil
    ELSE IF name \in DOMAIN links THEN linkObjs[links[name]].target ELSE nil

\* Filesystem.ResolveLinks
ResolveLinks(name) ==
    IF name \in DOMAIN links THEN linkObjs[links[name]].target ELSE nil

\* a PwdRecursion whose base case leaves dirs empty
RECURSIVE PwdRecursionEmptyBase(_)
PwdRecursionEmptyBase(curr) ==
    LET parent == files[curr].parent
    IN  IF parent = nil THEN <<>>
        ELSE Append(PwdRecursionEmptyBase(parent), files[curr].name)

\* util.PwdRecursion: the list it leaves in dirs
RECURSIVE PwdRecursion(_)
PwdRecursion(curr) ==
    LET parent == files[curr].parent
    IN  IF parent = nil THEN << <<>> >>
        ELSE Append(PwdRecursion(parent), files[curr].name)

\* Filesystem.Pwd: the string returned
PwdString ==
    IF currentDirectory = root THEN <<"/">>
    ELSE Join(PwdRecursion(currentDirectory), <<"/">>)

\* what a call leaves in ret
Call(op, args, res, err) == [op |-> op, args |-> args, res |-> res, err |-> err]

\* no call has returned since the caller took the last result
NoCall == Call("", <<>>, <<>>, NoError)

(***************************************************************************)
(* The history variable trail.  ok: the calls so far end with a sequence   *)
(* MkDir(d1); Cd(d1); ...; MkDir(dk); Cd(dk) of successful calls that      *)
(* began with the cursor at the root (k = 0: the cursor is at the root).   *)
(* names: d1..dk as they were passed.  pending: the path of a MkDir whose  *)
(* Cd has not come yet.  plain: every di was a single directory name,      *)
(* other than ".." and "~", and no registered link with a live target when *)
(* Cd took it.                                                             *)
(***************************************************************************)
NoTrail == [ok |-> FALSE, names |-> <<>>, pending |-> <<>>, plain |-> FALSE]

StartTrail == [ok |-> TRUE, names |-> <<>>, pending |-> <<>>, plain |-> TRUE]

\* a sequence can start wherever the cursor is at the root
TrailAt(cursor) == IF cursor = root THEN StartTrail ELSE NoTrail

PlainName(path) ==
    /\ SplitPath(path) = <<path>>
    /\ path # <<".", ".">>
    /\ path # <<"~">>

TrailAfterMkDir(path, succeeded) ==
    LET base == IF trail.ok /\ trail.pending = <<>> THEN trail
                ELSE TrailAt(currentDirectory)
    IN  IF succeeded /\ base.ok
        THEN [base EXCEPT !.pending = path]
        ELSE TrailAt(currentDirectory)

TrailAfterCd(path, succeeded, cursor) ==
    IF succeeded /\ trail.ok /\ trail.pending # <<>> /\ trail.pending = path
    THEN [ok      |-> TRUE,
          names   |-> Append(trail.names, path),
          pending |-> <<>>,
          plain   |-> trail.plain /\ PlainName(path) /\ ResolveLinks(path) = nil]
    ELSE TrailAt(cursor)

\* a call that returns (res, err) and changes nothing in the filesystem
Returns(op, args, res, err) ==
    /\ ret' = Call(op, args, res, err)
    /\ UNCHANGED fsVars

\* the heap has room for one more File
CanAllocFile == Cardinality(DOMAIN files) <= limits.files

\* the heap has room for one more link object
CanAllocLink == Cardinality(DOMAIN linkObjs) < limits.links

(***************************************************************************)
(* Filesystem.Pwd                                                          *)
(***************************************************************************)
Pwd ==
    /\ Returns("Pwd", <<>>, PwdString, NoError)
    /\ UNCHANGED trail

(***************************************************************************)
(* Filesystem.MkDir                                                        *)
(***************************************************************************)
MkDir(path) ==
    LET pathSplit == SplitPath(path)
        length    == Len(pathSplit)
        walk      == IF length > 1
                     THEN WalkToEndOfPath(files, SubSeq(pathSplit, 1, length - 1),
                                          currentDirectory, root)
                     ELSE [file |-> currentDirectory, err |-> NoError]
        wd        == walk.file
        name      == pathSplit[length]
        newDir    == NextFile(files)
    IN  IF length = 0
        THEN /\ Returns("MkDir", <<path>>, <<>>,
                        Error("Must provide at least one directory name", <<>>))
             /\ trail' = TrailAfterMkDir(path, FALSE)
        ELSE IF walk.err # NoError
        THEN /\ Returns("MkDir", <<path>>, <<>>, walk.err)
             /\ trail' = TrailAfterMkDir(path, FALSE)
        ELSE /\ CanAllocFile
             /\ files' = UpsertChild(files @@ (newDir :> NewFile(name, TRUE, wd)),
                                     wd, name, newDir)
             /\ ret' = Call("MkDir", <<path>>, name, NoError)
             /\ trail' = TrailAfterMkDir(path, TRUE)
             /\ UNCHANGED <<linkObjs, root, currentDirectory, links>>

(***************************************************************************)
(* Filesystem.Cd                                                           *)
(***************************************************************************)
Cd(path) ==
    LET resolvedLinkTarget == ResolveLinks(path)
        walk == WalkToEndOfPath(files, SplitPath(path), currentDirectory, root)
        leaf == IF resolvedLinkTarget # nil THEN resolvedLinkTarget ELSE walk.file
    IN  IF resolvedLinkTarget = nil /\ walk.err # NoError
        THEN /\ Returns("Cd", <<path>>, <<>>, walk.err)
             /\ trail' = TrailAfterCd(path, FALSE, currentDirectory)
        ELSE /\ currentDirectory' = leaf
             /\ ret' = Call("Cd", <<path>>, files[leaf].name, NoError)
             /\ trail' = TrailAfterCd(path, TRUE, leaf)
             /\ UNCHANGED <<files, linkObjs, root, links>>

(***************************************************************************)
(* Filesystem.Ls.  GetChildrenNames ranges over the children map, whose    *)
(* iteration order Go leaves open: any order may be returned.              *)
(***************************************************************************)
Orderings(S) ==
    {o \in [1..Cardinality(S) -> S] : \A i, j \in DOMAIN o : i # j => o[i] # o[j]}

\* File.GetChildrenNames: the lists it may return
GetChildrenNames(h, f) ==
    {[i \in DOMAIN o |-> h[h[f].children[o[i]]].name] : o \in Orderings(DOMAIN h[f].children)}

Ls(path) ==
    LET resolvedLinkTarget == ResolveLinks(path[1])
        walk == WalkToEndOfPath(files, SplitPath(path[1]), currentDirectory, root)
        wd   == IF Len(path) # 1 THEN currentDirectory
                ELSE IF resolvedLinkTarget # nil THEN resolvedLinkTarget
                ELSE walk.file
    IN  /\ trail' = TrailAt(currentDirectory)
        /\ IF Len(path) = 1 /\ resolvedLinkTarget # nil
              /\ ~files[resolvedLinkTarget].isDirectory
           THEN Returns("Ls", path, <<>>,
                        Error("Cannot list contents of %s - not a directory",
                              files[resolvedLinkTarget].name))
           ELSE IF Len(path) = 1 /\ resolvedLinkTarget = nil /\ walk.err # NoError
           THEN Returns("Ls", path, <<>>, walk.err)
           ELSE \E names \in GetChildrenNames(files, wd) :
                    Returns("Ls", path, Join(names, <<" ">>), NoError)

(***************************************************************************)
(* Filesystem.Rm                                                           *)
(***************************************************************************)
RECURSIVE RmRecursion(_, _)
RECURSIVE RmChildren(_, _, _)

\* the range loop of RmRecursion over curr's children; keys are those not yet
\* visited, and a key deleted meanwhile is not produced
RmChildren(h, curr, keys) ==
    IF keys = {} THEN h
    ELSE LET k  == CHOOSE x \in keys : TRUE
             h1 == IF k \in DOMAIN h[curr].children
                   THEN RmRecursion(h, h[curr].children[k])
                   ELSE h
         IN  RmChildren(h1, curr, keys \ {k})

\* a RmRecursion that removes what is below curr and leaves curr in its parent
RmRecursionBelowOnly(h, curr) ==
    IF curr = nil \/ h[curr].parent = nil THEN h
    ELSE RmChildren(h, curr, DOMAIN h[curr].children)

\* util.RmRecursion: the heap it leaves
RmRecursion(h, curr) ==
    IF curr = nil \/ h[curr].parent = nil THEN h
    ELSE LET h1 == [h EXCEPT ![h[curr].parent].children = MapDelete(@, h[curr].name)]
         IN  RmChildren(h1, curr, DOMAIN h1[curr].children)

\* the loop at the end of Rm: RemoveSymLink on the File for every symlink of it
RemoveSymLinks(h, f) == [h EXCEPT ![f].symlinks = EmptyMap]

\* a loop that clears the target of every link to the File, hard links too
RemoveTargetsOfHardLinksToo(lo, h, f) ==
    [l \in DOMAIN lo |->
        IF lo[l].target = f THEN [lo[l] EXCEPT !.target = nil] ELSE lo[l]]

\* the loop at the end of Rm: SymLink.RemoveTarget on every symlink of the File
RemoveTargets(lo, h, f) ==
    [l \in DOMAIN lo |->
        IF \E n \in DOMAIN h[f].symlinks : h[f].symlinks[n] = l
        THEN [lo[l] EXCEPT !.target = nil]
        ELSE lo[l]]

Rm(path, recursive) ==
    LET p        == Trim(path, "/")
        wd       == currentDirectory
        toRemove == GetChildByName(files, wd, p)
        args     == <<path, IF recursive THEN <<"true">> ELSE <<"false">> >>
        removed  == IF recursive THEN RmRecursion(files, toRemove)
                    ELSE RemoveChild(files, wd, p)
    IN  /\ trail' = TrailAt(currentDirectory)
        /\ IF p \in DOMAIN links
           THEN /\ files' = RemoveChild(files, wd, p)
                /\ links' = MapDelete(links, p)
                /\ ret' = Call("Rm", args, p, NoError)
                /\ UNCHANGED <<linkObjs, root, currentDirectory>>
           ELSE IF toRemove = nil
           THEN Returns("Rm", args, <<>>, Error("Directory not found: %s", p))
           ELSE IF ~recursive /\ files[toRemove].isDirectory
                   /\ Cardinality(DOMAIN files[toRemove].children) > 0
           THEN Returns("Rm", args, <<>>,
                        Error("Method does not support removing non-empty directories. Use the recursive option", <<>>))
           ELSE IF recursive /\ ~files[toRemove].isDirectory
           THEN Returns("Rm", args, <<>>,
                        Error("Method does not support removing files recursively", <<>>))
           ELSE /\ files' = RemoveSymLinks(removed, toRemove)
                /\ linkObjs' = RemoveTargets(linkObjs, files, toRemove)
                /\ ret' = Call("Rm", args, files[toRemove].name, NoError)
                /\ UNCHANGED <<root, currentDirectory, links>>

(***************************************************************************)
(* Filesystem.MkFile                                                       *)
(***************************************************************************)
MkFile(name) ==
    LET wd      == currentDirectory
        newName == IF ExistsInCurrentDir(files, wd, name, FALSE)
                   THEN ModifyNameToHandleCollisions(name)
                   ELSE name
        newFile == NextFile(files)
    IN  /\ trail' = TrailAt(currentDirectory)
        /\ IF ContainsRune(name, "/")
           THEN Returns("MkFile", <<name>>, <<>>,
                        Error("/ character not supported in filenames", <<>>))
           ELSE /\ CanAllocFile
                /\ files' = UpsertChild(files @@ (newFile :> NewFile(newName, FALSE, wd)),
                                        wd, newName, newFile)
                /\ ret' = Call("MkFile", <<name>>, newName, NoError)
                /\ UNCHANGED <<linkObjs, root, currentDirectory, links>>

(***************************************************************************)
(* Filesystem.WriteFile: name and the data arguments                       *)
(***************************************************************************)
WriteFile(name, data) ==
    LET wd    == currentDirectory
        file  == GetChildByName(files, wd, name)
        wrote == WriteFileData(files, file, StringSliceToByteSlice(data))
    IN  /\ trail' = TrailAt(currentDirectory)
        /\ IF file = nil
           THEN Returns("WriteFile", <<name>> \o data, <<>>,
                        Error("File %s does not exist", name))
           ELSE /\ files' = wrote.heap
                /\ ret' = Call("WriteFile", <<name>> \o data, name, wrote.err)
                /\ UNCHANGED <<linkObjs, root, currentDirectory, links>>

(***************************************************************************)
(* Filesystem.ReadFile                                                     *)
(***************************************************************************)
\* strings.SplitAfterN(s, ",", n)[0] for n > 1: s up to and with its first comma
FirstSplitAfter(s, sep) ==
    IF \A i \in 1..Len(s) : s[i] # sep THEN s
    ELSE SubSeq(s, 1, CHOOSE k \in 1..Len(s) :
                          s[k] = sep /\ \A j \in 1..(k - 1) : s[j] # sep)

\* the text Sprintf puts after the cut contents, as one token
TruncatedSuffix == <<" ...[trunated contents after %d chars]">>

\* File.ReadFileContents
ReadFileContents(h, f) ==
    LET str == h[f].contents
    IN  IF Len(str) > MaxFileReadSize
        THEN FirstSplitAfter(str, ",") \o TruncatedSuffix
        ELSE str

ReadFile(name) ==
    LET wd           == currentDirectory
        resolvedLink == ResolveLinks(name)
        file         == IF resolvedLink # nil THEN resolvedLink
                        ELSE GetChildByName(files, wd, name)
    IN  /\ trail' = TrailAt(currentDirectory)
        /\ IF file = nil
           THEN Returns("ReadFile", <<name>>, <<>>,
                        Error("File %s does not exist!", name))
           ELSE Returns("ReadFile", <<name>>, ReadFileContents(files, file), NoError)

(***************************************************************************)
(* Filesystem.MvFile                                                       *)
(***************************************************************************)
MvFile(nameArg, targetArg) ==
    LET name      == Trim(nameArg, "/")
        target    == Trim(targetArg, "/")
        args      == <<nameArg, targetArg>>
        wd        == currentDirectory
        file      == GetChildByName(files, wd, name)
        splitPath == SplitPath(target)
        walk      == WalkToEndOfPath(files, splitPath, currentDirectory, root)
        targetDir == walk.file
        h1        == RemoveChild(files, wd, name)
        collides  == ExistsInCurrentDir(h1, targetDir, name, FALSE)
        newName   == IF collides THEN ModifyNameToHandleCollisions(name) ELSE name
        h2        == IF collides THEN SetName(h1, file, newName) ELSE h1
        h3        == UpsertChild(h2, targetDir, newName, file)
    IN  /\ trail' = TrailAt(currentDirectory)
        /\ IF Len(splitPath) = 0
           THEN Returns("MvFile", args, <<>>, Error("Invalid target path: %s", target))
           ELSE IF walk.err # NoError
           THEN Returns("MvFile", args, <<>>, walk.err)
           ELSE IF file = nil
           THEN Returns("MvFile", args, <<>>, Error("File %s does not exist", name))
           ELSE IF files[file].isDirectory
           THEN Returns("MvFile", args, <<>>,
                        Error("File %s is a directory; cannot move", name))
           ELSE IF targetDir = nil
           THEN Returns("MvFile", args, <<>>,
                        Error("Target directory %s does not exist", target))
           ELSE IF ~files[targetDir].isDirectory
           THEN Returns("MvFile", args, <<>>,
                        Error("Target path %s is not a directory", target))
           ELSE /\ files' = SetParent(h3, file, targetDir)
                /\ ret' = Call("MvFile", args, target, NoError)
                /\ UNCHANGED <<linkObjs, root, currentDirectory, links>>

(***************************************************************************)
(* Filesystem.FindFileOrDir.  BFS pushes the children of a File in the     *)
(* iteration order of its children map, which Go leaves open: BFS is the   *)
(* set of the lists it may return.                                         *)
(***************************************************************************)
RECURSIVE BFSLoop(_, _, _, _, _)
BFSLoop(h, target, queue, visited, result) ==
    IF Len(queue) = 0 THEN {result}
    ELSE LET next == Head(queue)
             name == h[next].name
         IN  IF name \in visited
             THEN BFSLoop(h, target, Tail(queue), visited, result)
             ELSE UNION {
                    BFSLoop(h, target,
                            Tail(queue) \o [i \in DOMAIN o |-> h[next].children[o[i]]],
                            visited \cup {name},
                            IF name = target THEN Append(result, next) ELSE result)
                    : o \in Orderings(DOMAIN h[next].children)}

\* util.BFS
BFS(h, node, target) ==
    IF node = nil THEN {<<>>} ELSE BFSLoop(h, target, <<node>>, {}, <<>>)

\* File.GetFullPathName
RECURSIVE GetFullPathName(_, _, _)
GetFullPathName(h, curr, start) ==
    IF curr = start \/ h[curr].parent = nil THEN <<>>
    ELSE GetFullPathName(h, h[curr].parent, start) \o <<"/">> \o h[curr].name

\* util.FileSliceToString
FileSliceToString(h, data, start) ==
    [i \in DOMAIN data |-> GetFullPathName(h, data[i], start)]

FindFileOrDir(target, searchSubtrees) ==
    LET args == <<target, IF searchSubtrees THEN <<"true">> ELSE <<"false">> >>
    IN  /\ trail' = TrailAt(currentDirectory)
        /\ IF searchSubtrees
           THEN \E found \in BFS(files, root, target) :
                    Returns("FindFileOrDir", args,
                            FileSliceToString(files, found, root), NoError)
           ELSE Returns("FindFileOrDir", args,
                        IF target \in DOMAIN files[currentDirectory].children
                        THEN <<target>> ELSE <<>>,
                        NoError)

(***************************************************************************)
(* Links                                                                   *)
(***************************************************************************)
\* util.NewSymLink / util.NewHardLink
NewLink(name, target, isSymLink) ==
    [name |-> name, target |-> target, isSymLink |-> isSymLink]

\* the address the next allocated link object gets
NextLink == Cardinality(DOMAIN linkObjs) + 1

\* File.AddSymLink: whether it returns the "already exists" error
SymLinkExists(h, f, name) == MapGet(h[f].symlinks, name) # nil

\* an AddHardLink test that looks in the symlinks of the File
HardLinkExistsAmongSymLinks(h, f, name) == MapGet(h[f].symlinks, name) # nil

\* File.AddHardLink: whether it returns the "already exists" error
HardLinkExists(h, f, name) == MapGet(h[f].hardLinks, name) # nil

CreateSymlink(target, linkName) ==
    LET wd         == currentDirectory
        targetFile == GetChildByName(files, wd, target)
        args       == <<target, linkName>>
    IN  /\ trail' = TrailAt(currentDirectory)
        /\ IF targetFile = nil
           THEN Returns("CreateSymlink", args, <<>>,
                        Error("Cannot create symlink: %s file/directory not found", target))
           ELSE IF SymLinkExists(files, targetFile, linkName)
           THEN Returns("CreateSymlink", args, <<>>,
                        Error("Link with name %s already exists", linkName))
           ELSE /\ CanAllocLink
                /\ linkObjs' = linkObjs @@ (NextLink :> NewLink(linkName, targetFile, TRUE))
                /\ files' = [files EXCEPT ![targetFile].symlinks = MapSet(@, linkName, NextLink)]
                /\ links' = MapSet(links, linkName, NextLink)
                /\ ret' = Call("CreateSymlink", args, linkName, NoError)
                /\ UNCHANGED <<root, currentDirectory>>

CreateHardlink(target, linkName) ==
    LET wd         == currentDirectory
        targetFile == GetChildByName(files, wd, target)
        args       == <<target, linkName>>
    IN  /\ trail' = TrailAt(currentDirectory)
        /\ IF targetFile = nil \/ files[targetFile].isDirectory
           THEN Returns("CreateHardlink", args, <<>>,
                        Error("Cannot create symlink: %s file not found", target))
           ELSE IF HardLinkExists(files, targetFile, linkName)
           THEN Returns("CreateHardlink", args, <<>>,
                        Error("Link with name %s already exists", linkName))
           ELSE /\ CanAllocLink
                /\ linkObjs' = linkObjs @@ (NextLink :> NewLink(linkName, targetFile, FALSE))
                /\ files' = [files EXCEPT ![targetFile].hardLinks = MapSet(@, linkName, NextLink)]
                /\ links' = MapSet(links, linkName, NextLink)
                /\ ret' = Call("CreateHardlink", args, linkName, NoError)
                /\ UNCHANGED <<root, currentDirectory>>

(***************************************************************************)
(* The arguments the calls are tried with.                                 *)
(***************************************************************************)
\* "", " ", "d", "a", "d/d", "~/d", "a/d"
MkDirPaths ==
    {<<>>, <<" ">>, <<".", ".">>, <<"d">>, <<"a">>, <<"d", "/", "d">>,
     <<"~", "/", "d">>, <<"a", "/", "d">>}

\* "", "d", "/d", "..", "~", "a", "~/d/d", "../d", "d/a"
CdPaths ==
    {<<>>, <<"d">>, <<"/", "d">>, <<".", ".">>, <<"~">>, <<"a">>,
     <<"~", "/", "d", "/", "d">>, <<".", ".", "/", "d">>, <<"d", "/", "a">>}

\* no argument, or one of "", "d", "a", "..", "~/d"
LsPaths ==
    {<<>>, << <<>> >>, << <<"d">> >>, << <<"a">> >>, << <<".", ".">> >>,
     << <<"~", "/", "d">> >>}

\* "a", "/d", "d/d", ".."
RmPaths == {<<"a">>, <<"/", "d">>, <<"d", "/", "d">>, <<".", ".">>}

\* "a", "a.t", "a1", "a/"
MkFileNames == {<<"a">>, <<"a", ".", "t">>, <<"a", "1">>, <<"a", "/">>, <<".", ".">>}

\* "a", "d", "a1"
WriteFileNames == {<<"a">>, <<"d">>, <<"a", "1">>}

\* the data arguments: none, "x", or "," and "x"
WriteFileData_Args == {<<>>, << <<"x">> >>, << <<",">>, <<"x">> >>}

\* "a", "a1", "d", ".."
ReadFileNames == {<<"a">>, <<"a", "1">>, <<"d">>, <<".", ".">>}

\* "a", "/a", "d"
MvFileNames == {<<"a">>, <<"/", "a">>, <<"d">>}

\* "d", "d/", "..", "/", "a", "~"
MvFileTargets == {<<"d">>, <<"d", "/">>, <<".", ".">>, <<"/">>, <<"a">>, <<"~">>}

\* "a", "d"
FindTargets == {<<"a">>, <<"d">>}

\* "a", "d"
LinkTargets == {<<"a">>, <<"d">>}

\* "a", ".."
LinkNames == {<<"a">>, <<".", ".">>}

(***************************************************************************)
(* NewFileSystem, and the calls a program may make until one panics.       *)
(***************************************************************************)
Init ==
    /\ files = (1 :> NewFile(<<"/">>, TRUE, nil))
    /\ linkObjs = EmptyMap
    /\ root = 1
    /\ currentDirectory = 1
    /\ links = EmptyMap
    /\ ret = NoCall
    /\ calls = 0
    /\ limits = [files |-> MaxFiles, links |-> MaxLinks, calls |-> MaxCalls]
    /\ trail = StartTrail

\* main.printResults: the caller takes what the call returned; a panic ends the program
PrintResults ==
    /\ ret # NoCall
    /\ ret.err # Panic
    /\ ret' = NoCall
    /\ UNCHANGED <<fsVars, calls, limits, trail>>

\* the program makes its next call
Calling ==
    /\ ret = NoCall
    /\ calls < limits.calls
    /\ calls' = calls + 1
    /\ UNCHANGED limits

Next ==
    \/ PrintResults
    \/ Calling /\ Pwd
    \/ \E path \in MkDirPaths : Calling /\ MkDir(path)
    \/ \E path \in CdPaths : Calling /\ Cd(path)
    \/ \E path \in LsPaths : Calling /\ Ls(path)
    \/ \E path \in RmPaths, recursive \in BOOLEAN : Calling /\ Rm(path, recursive)
    \/ \E name \in MkFileNames : Calling /\ MkFile(name)
    \/ \E name \in WriteFileNames, data \in WriteFileData_Args :
           Calling /\ WriteFile(name, data)
    \/ \E name \in ReadFileNames : Calling /\ ReadFile(name)
    \/ \E name \in MvFileNames, target \in MvFileTargets : Calling /\ MvFile(name, target)
    \/ \E target \in FindTargets, searchSubtrees \in BOOLEAN :
           Calling /\ FindFileOrDir(target, searchSubtrees)
    \/ \E target \in LinkTargets, linkName \in LinkNames :
           Calling /\ CreateSymlink(target, linkName)
    \/ \E target \in LinkTargets, linkName \in LinkNames :
           Calling /\ CreateHardlink(target, linkName)

Spec == Init /\ [][Next]_vars

(***************************************************************************)
(* The same program with room for one more File and one more call, and     *)
(* fewer arguments to try: the runs that put two files into a directory    *)
(* and move a third one into it, and the runs that make two directories    *)
(* with a child of the same name each and search for that name.            *)
(***************************************************************************)
InitMoves ==
    /\ files = (1 :> NewFile(<<"/">>, TRUE, nil))
    /\ linkObjs = EmptyMap
    /\ root = 1
    /\ currentDirectory = 1
    /\ links = EmptyMap
    /\ ret = NoCall
    /\ calls = 0
    /\ limits = [files |-> MaxMoveFiles, links |-> MaxMoveLinks, calls |-> MaxMoveCalls]
    /\ trail = StartTrail

\* "d", ".."
MovesDirs == {<<"d">>, <<".", ".">>}

\* "d", "a", "a/t", "d/t"
MovesMkDirPaths == {<<"d">>, <<"a">>, <<"a", "/", "t">>, <<"d", "/", "t">>}

\* "a", "t"
MovesFindTargets == {<<"a">>, <<"t">>}

\* "a", "a1"
MovesNames == {<<"a">>, <<"a", "1">>}

NextMoves ==
    \/ PrintResults
    \/ Calling /\ Pwd
    \/ \E path \in MovesMkDirPaths : Calling /\ MkDir(path)
    \/ \E path \in MovesDirs : Calling /\ Cd(path)
    \/ Calling /\ Ls(<<>>)
    \/ \E recursive \in BOOLEAN : Calling /\ Rm(<<"d">>, recursive)
    \/ \E name \in MovesNames : Calling /\ MkFile(name)
    \/ Calling /\ WriteFile(<<"a">>, << <<"x">> >>)
    \/ \E name \in MovesNames : Calling /\ ReadFile(name)
    \/ \E target \in MovesDirs : Calling /\ MvFile(<<"a">>, target)
    \/ \E target \in MovesFindTargets : Calling /\ FindFileOrDir(target, TRUE)
    \/ Calling /\ CreateSymlink(<<"a">>, <<"a">>)
    \/ Calling /\ CreateHardlink(<<"a">>, <<"a">>)

SpecMoves == InitMoves /\ [][NextMoves]_vars

(***************************************************************************)
(* What the claims speak of.                                               *)
(***************************************************************************)
\* the Files reachable from the root through children maps
RECURSIVE ReachableFrom(_, _)
ReachableFrom(h, S) ==
    LET T == S \cup {h[n].children[k] : <<n, k>> \in
                        {<<m, j>> \in S \X UNION {DOMAIN h[m].children : m \in S} :
                            j \in DOMAIN h[m].children}}
    IN  IF T = S THEN S ELSE ReachableFrom(h, T)

Reachable == ReachableFrom(files, {root})

\* a call has just returned (ret' holds it; the state before the call is unprimed)
Returned(op) == ret = NoCall /\ ret'.op = op

\* the methods that return an error value
ErrorMethods ==
    {"MkDir", "Cd", "Ls", "Rm", "MkFile", "WriteFile", "ReadFile", "MvFile",
     "CreateSymlink", "CreateHardlink"}

(***************************************************************************)
(* C1: a call of MkDir, Cd, Ls, Rm, MkFile, WriteFile, ReadFile, MvFile,   *)
(* CreateSymlink or CreateHardlink that returns an error leaves every      *)
(* File (children, name, parent, contents), the current directory and the  *)
(* link registry exactly as they were before the call.                     *)
(***************************************************************************)
C1_FailedCallChangesNothing ==
    [][(ret = NoCall /\ ret'.op \in ErrorMethods /\ ret'.err # NoError)
          => (files' = files /\ linkObjs' = linkObjs /\ root' = root
              /\ currentDirectory' = currentDirectory /\ links' = links)]_vars

\* WriteFile has failed on the size limit of a file that holds contents
C1_Witness ==
    /\ ret.op = "WriteFile"
    /\ ret.err.fmt = "Exceeded max file size: size=%d, max=%d"
    /\ \E f \in Reachable : Len(files[f].contents) > 0

(***************************************************************************)
(* C2: every File reachable from the root, the root excepted, has a        *)
(* parent that is reachable and whose children map holds it under its own  *)
(* name; it sits in no other children map and under no other key; and its  *)
(* parent chain ends at the root.                                          *)
(***************************************************************************)
RECURSIVE EndsAtRoot(_, _)
EndsAtRoot(n, fuel) ==
    IF n = root THEN TRUE
    ELSE IF fuel = 0 \/ files[n].parent = nil THEN FALSE
    ELSE EndsAtRoot(files[n].parent, fuel - 1)

C2_TreeShape ==
    \A n \in Reachable \ {root} :
        LET p == files[n].parent
        IN  /\ p # nil
            /\ p \in Reachable
            /\ files[n].name \in DOMAIN files[p].children
            /\ files[p].children[files[n].name] = n
            /\ \A q \in Reachable : \A k \in DOMAIN files[q].children :
                   files[q].children[k] = n => (q = p /\ k = files[n].name)
            /\ EndsAtRoot(n, Cardinality(DOMAIN files))

\* MvFile has renamed a file on its way into a directory below the root
C2_Witness ==
    /\ ret.op = "MvFile"
    /\ ret.err = NoError
    /\ \E n \in Reachable :
          /\ files[n].parent \notin {nil, root}
          /\ files[n].name = <<"a", "1">>

(***************************************************************************)
(* C3: every directory has empty contents and every file has an empty      *)
(* children map.                                                           *)
(***************************************************************************)
C3_KindInvariant ==
    \A n \in DOMAIN files :
        /\ files[n].isDirectory => Len(files[n].contents) = 0
        /\ ~files[n].isDirectory => DOMAIN files[n].children = {}

(***************************************************************************)
(* Paths as the specification describes them, written without the model's  *)
(* SplitPath and WalkToEndOfPath.                                          *)
(***************************************************************************)
\* path[i..j] is a maximal run of characters other than "/"
IsRun(path, i, j) ==
    /\ i <= j
    /\ \A k \in i..j : path[k] # "/"
    /\ i = 1 \/ path[i - 1] = "/"
    /\ j = Len(path) \/ path[j + 1] = "/"

\* the runs that are not blank
Runs(path) ==
    {r \in (1..Len(path)) \X (1..Len(path)) :
        IsRun(path, r[1], r[2]) /\ \E k \in r[1]..r[2] : path[k] # " "}

\* the segments of a path, in order
Segments(path) ==
    LET R == Runs(path)
    IN  [n \in 1..Cardinality(R) |->
            LET r == CHOOSE q \in R : Cardinality({x \in R : x[1] < q[1]}) = n - 1
            IN  SubSeq(path, r[1], r[2])]

DotDot == <<".", ".">>

Tilde == <<"~">>

\* one segment from w: the parent for "..", stay at the root; else the child
\* directory of that name, nil if there is none
Move(w, seg) ==
    IF seg = DotDot THEN (IF w = root THEN root ELSE files[w].parent)
    ELSE IF seg \in DOMAIN files[w].children
            /\ files[files[w].children[seg]].isDirectory
    THEN files[w].children[seg]
    ELSE nil

\* the File reached from start after the first i segments, nil once one has failed
RECURSIVE Reached(_, _, _)
Reached(start, segs, i) ==
    IF i = 0 THEN start
    ELSE LET w == Reached(start, segs, i - 1)
         IN  IF w = nil THEN nil ELSE Move(w, segs[i])

\* the first segment that names no child directory, 0 if every segment resolves
FailsAt(start, segs) ==
    IF \A i \in 1..Len(segs) : Reached(start, segs, i) # nil THEN 0
    ELSE CHOOSE i \in 1..Len(segs) :
             /\ Reached(start, segs, i) = nil
             /\ \A j \in 1..(i - 1) : Reached(start, segs, j) # nil

\* where the resolution of segs starts, and the segments it walks
StartOf(segs) == IF Len(segs) > 0 /\ segs[1] = Tilde THEN root ELSE currentDirectory

WalkedOf(segs) == IF Len(segs) > 0 /\ segs[1] = Tilde THEN Tail(segs) ELSE segs

DirectoryNotFound(seg) == Error("Directory not found: %s", seg)

\* "/" before every name
RECURSIVE SlashNames(_)
SlashNames(names) ==
    IF Len(names) = 0 THEN <<>>
    ELSE <<"/">> \o names[1] \o SlashNames(Tail(names))

\* the names on the parent chain of n, from below the root down to n
RECURSIVE ChainNames(_)
ChainNames(n) ==
    IF files[n].parent = nil THEN <<>>
    ELSE Append(ChainNames(files[n].parent), files[n].name)

\* the key sequences that lead from a File down to n through children maps
RECURSIVE DownPaths(_, _, _)
DownPaths(from, n, depth) ==
    IF from = n THEN {<<>>}
    ELSE IF depth = 0 THEN {}
    ELSE UNION {{<<k>> \o q : q \in DownPaths(files[from].children[k], n, depth - 1)}
                   : k \in DOMAIN files[from].children}

(***************************************************************************)
(* C4 as claimed: Pwd returns "/" when the cursor is the root, and         *)
(* otherwise "/" followed by the names on the parent chain from below the  *)
(* root down to the cursor, joined by "/"; after MkDir(d1); Cd(d1); ...;   *)
(* MkDir(dk); Cd(dk) started at the root it returns "/d1/.../dk".          *)
(***************************************************************************)
C4_PwdAnyNames ==
    ret.op = "Pwd" =>
        /\ currentDirectory = root => ret.res = <<"/">>
        /\ currentDirectory # root =>
              ret.res = SlashNames(ChainNames(currentDirectory))
        /\ (trail.ok /\ trail.pending = <<>> /\ Len(trail.names) > 0) =>
              ret.res = SlashNames(trail.names)

(***************************************************************************)
(* C4 amended: Pwd returns "/" when the cursor is the root, and otherwise  *)
(* "/" followed by the names on the parent chain from below the root down  *)
(* to the cursor, joined by "/" (the keys of the children maps on the way  *)
(* down, when the cursor is reachable from the root); after MkDir(d1);     *)
(* Cd(d1); ...; MkDir(dk); Cd(dk) started at the root, each di a single    *)
(* directory name other than ".." and "~" that is not a registered link    *)
(* with a live target, it returns "/d1/.../dk".                            *)
(***************************************************************************)
C4_Pwd ==
    ret.op = "Pwd" =>
        /\ currentDirectory = root => ret.res = <<"/">>
        /\ currentDirectory # root =>
              /\ ret.res = SlashNames(ChainNames(currentDirectory))
              /\ \A keys \in DownPaths(root, currentDirectory, Cardinality(DOMAIN files)) :
                     ret.res = SlashNames(keys)
        /\ (trail.ok /\ trail.plain /\ trail.pending = <<>> /\ Len(trail.names) > 0) =>
              ret.res = SlashNames(trail.names)

\* Pwd after MkDir(d1); Cd(d1); MkDir(d2); Cd(d2)
C4_Witness ==
    /\ ret.op = "Pwd"
    /\ trail.ok
    /\ trail.plain
    /\ trail.pending = <<>>
    /\ Len(trail.names) = 2
    /\ Len(ret.res) = 4

(***************************************************************************)
(* C5: Cd(path), path with at least one segment and not a registered link  *)
(* name, starts at the root if the first segment is "~" and at the current *)
(* directory otherwise, moves to the parent on "..", and to the child      *)
(* directory of that name on any other segment.  If a segment names no     *)
(* child directory, Cd fails with "Directory not found: <segment>" and the *)
(* cursor stays; else the cursor is the File reached and its name is       *)
(* returned.                                                               *)
(***************************************************************************)
C5_CdResolvesPath ==
    [][LET path   == ret'.args[1]
           segs   == Segments(path)
           start  == StartOf(segs)
           walked == WalkedOf(segs)
           bad    == FailsAt(start, walked)
           leaf   == Reached(start, walked, Len(walked))
       IN  (Returned("Cd") /\ Len(segs) >= 1 /\ path \notin DOMAIN links) =>
               IF bad # 0
               THEN /\ ret'.err = DirectoryNotFound(walked[bad])
                    /\ currentDirectory' = currentDirectory
               ELSE /\ ret'.err = NoError
                    /\ currentDirectory' = leaf
                    /\ ret'.res = files[leaf].name
      ]_vars

\* Cd("~/d/d") has succeeded from a directory that has no child d
C5_Witness ==
    /\ ret.op = "Cd"
    /\ ret.args = << <<"~", "/", "d", "/", "d">> >>
    /\ ret.err = NoError
    /\ files[currentDirectory].parent \notin {nil, root}
    /\ DOMAIN files[currentDirectory].children = {}

(***************************************************************************)
(* C6 as claimed: Cd("..") with the cursor at the root returns no error    *)
(* and leaves the cursor at the root, Pwd being "/" before and after.      *)
(***************************************************************************)
C6_CdDotDotAtRoot ==
    [][(Returned("Cd") /\ ret'.args = <<DotDot>> /\ currentDirectory = root) =>
          /\ ret'.err = NoError
          /\ currentDirectory' = root
          /\ PwdString = <<"/">>
          /\ PwdString' = <<"/">>
      ]_vars

(***************************************************************************)
(* C6 amended: Cd("..") with the cursor at the root, ".." not being a      *)
(* registered link with a live target, returns no error and leaves the     *)
(* cursor at the root, Pwd being "/" before and after; and no path         *)
(* resolution (in Cd, Ls, MkDir, MvFile) ever fails on a ".." segment.     *)
(***************************************************************************)
C6_CdDotDotAtRootNoLink ==
    [][/\ (Returned("Cd") /\ ret'.args = <<DotDot>> /\ currentDirectory = root
             /\ ResolveLinks(DotDot) = nil) =>
              /\ ret'.err = NoError
              /\ currentDirectory' = root
              /\ PwdString = <<"/">>
              /\ PwdString' = <<"/">>
       /\ (ret = NoCall /\ ret'.op \in {"Cd", "Ls", "MkDir", "MvFile"}) =>
              ret'.err # DirectoryNotFound(DotDot)
      ]_vars

\* Cd("..") has returned in a filesystem whose only File is the root
C6_Witness ==
    /\ ret = Call("Cd", <<DotDot>>, <<"/">>, NoError)
    /\ DOMAIN files = {root}
    /\ ResolveLinks(DotDot) = nil

FileCalled(wd, name) ==
    IF name \in DOMAIN files[wd].children
       /\ ~files[files[wd].children[name]].isDirectory
    THEN files[wd].children[name]
    ELSE nil

\* the positions of "." in name
Dots(name) == {i \in 1..Len(name) : name[i] = "."}

\* the collision transform: "1" just before the only ".", else "1" at the end
Transformed(name) ==
    IF Cardinality(Dots(name)) = 1
    THEN LET i == CHOOSE k \in Dots(name) : TRUE
         IN  SubSeq(name, 1, i - 1) \o <<"1">> \o SubSeq(name, i, Len(name))
    ELSE Append(name, "1")

\* the call has made a new empty file, a child of wd under the key called
MadeEmptyFile(wd, called) ==
    \E new \in DOMAIN files' \ DOMAIN files :
        /\ files'[new] = [name        |-> called,
                          isDirectory |-> FALSE,
                          contents    |-> <<>>,
                          children    |-> EmptyMap,
                          parent      |-> wd,
                          symlinks    |-> EmptyMap,
                          hardLinks   |-> EmptyMap]
        /\ called \in DOMAIN files'[wd].children
        /\ files'[wd].children[called] = new

\* MkFile(name) where the current directory holds a file called name
MkFileOnCollision ==
    LET name == ret'.args[1]
        wd   == currentDirectory
        old  == FileCalled(wd, name)
    IN  (Returned("MkFile") /\ old # nil) =>
            /\ ret'.err = NoError
            /\ ret'.res = Transformed(name)
            /\ MadeEmptyFile(wd, ret'.res)
            /\ name \in DOMAIN files'[wd].children
            /\ files'[wd].children[name] = old
            /\ files'[old] = files[old]

(***************************************************************************)
(* C8 as claimed: MkFile(name) in a directory that holds a file called     *)
(* name makes a second, distinct, empty file and returns the transformed   *)
(* name ("1" before the only ".", else "1" appended); the original file,   *)
(* unchanged, and the new one are both children of the current directory.  *)
(* With no file of that name present, MkFile returns name unchanged.       *)
(***************************************************************************)
C8_MkFileAnyName ==
    [][/\ MkFileOnCollision
       /\ (Returned("MkFile") /\ FileCalled(currentDirectory, ret'.args[1]) = nil) =>
              ret'.res = ret'.args[1]
      ]_vars

(***************************************************************************)
(* C8 amended: MkFile(name) in a directory that holds a file called name   *)
(* makes a second, distinct, empty file and returns the transformed name   *)
(* ("1" before the only ".", else "1" appended); the original file,        *)
(* unchanged, and the new one are both children of the current directory.  *)
(* With no file of that name present and no "/" in name, MkFile makes an   *)
(* empty file called name and returns name unchanged; with a "/" in name   *)
(* it fails and returns the empty string.                                  *)
(***************************************************************************)
C8_MkFile ==
    [][/\ MkFileOnCollision
       /\ (Returned("MkFile") /\ FileCalled(currentDirectory, ret'.args[1]) = nil) =>
              IF \E i \in 1..Len(ret'.args[1]) : ret'.args[1][i] = "/"
              THEN /\ ret'.err # NoError
                   /\ ret'.res = <<>>
              ELSE /\ ret'.err = NoError
                   /\ ret'.res = ret'.args[1]
                   /\ MadeEmptyFile(currentDirectory, ret'.args[1])
      ]_vars

\* MkFile("a.t") has returned "a1.t", the first a.t being a child still
C8_Witness ==
    /\ ret = Call("MkFile", << <<"a", ".", "t">> >>, <<"a", "1", ".", "t">>, NoError)
    /\ FileCalled(currentDirectory, <<"a", ".", "t">>) # nil
    /\ FileCalled(currentDirectory, <<"a", "1", ".", "t">>) # nil
    /\ FileCalled(currentDirectory, <<"a", ".", "t">>)
          # FileCalled(currentDirectory, <<"a", "1", ".", "t">>)

\* what MkFile, WriteFile with one data argument, and ReadFile within the
\* display cap do to the contents of a file; linked: ReadFile(name) is
\* held to it also when name is a registered link with a live target
WriteThenRead(linked) ==
    LET name == ret'.args[1]
        f    == FileCalled(currentDirectory, name)
    IN  /\ (Returned("MkFile") /\ ret'.err = NoError) =>
               MadeEmptyFile(currentDirectory, ret'.res)
        /\ (Returned("WriteFile") /\ ret'.err = NoError /\ Len(ret'.args) = 2
              /\ f # nil) =>
               /\ files'[f].contents = files[f].contents \o ret'.args[2]
               /\ \A n \in DOMAIN files \ {f} : files'[n] = files[n]
        /\ (ret = NoCall /\ ret'.op # "" /\ ret'.op # "WriteFile") =>
               \A n \in DOMAIN files : files'[n].contents = files[n].contents
        /\ (Returned("ReadFile") /\ f # nil /\ Len(files[f].contents) <= MaxFileReadSize
              /\ (linked \/ ResolveLinks(name) = nil)) =>
               /\ ret'.err = NoError
               /\ ret'.res = files[f].contents

(***************************************************************************)
(* C9 as claimed: a file made by MkFile is empty, each successful          *)
(* WriteFile(f, s) with one data argument puts s at the end of the         *)
(* contents of f and no other call changes them, so that after             *)
(* WriteFile(f, s1); ...; WriteFile(f, sk) the contents are s1 ... sk in   *)
(* call order; and ReadFile(f) returns the contents when they are within   *)
(* the display cap.                                                        *)
(***************************************************************************)
C9_AppendOnly == [][WriteThenRead(TRUE)]_vars

(***************************************************************************)
(* C9 amended: a file made by MkFile is empty, each successful             *)
(* WriteFile(f, s) with one data argument puts s at the end of the         *)
(* contents of f and no other call changes them, so that after             *)
(* WriteFile(f, s1); ...; WriteFile(f, sk) the contents are s1 ... sk in   *)
(* call order; and ReadFile(f) returns the contents when they are within   *)
(* the display cap and f is not a registered link name with a live target. *)
(***************************************************************************)
C9_AppendOnlyNoLink == [][WriteThenRead(FALSE)]_vars

\* ReadFile("a") has returned "xx", written by two calls
C9_Witness ==
    /\ ret = Call("ReadFile", << <<"a">> >>, <<"x", "x">>, NoError)
    /\ ResolveLinks(<<"a">>) = nil
    /\ FileCalled(currentDirectory, <<"a">>) # nil

\* the arguments one after the other, sep between each two
RECURSIVE Glued(_, _)
Glued(args, sep) ==
    IF Len(args) = 0 THEN <<>>
    ELSE IF Len(args) = 1 THEN args[1]
    ELSE args[1] \o sep \o Glued(Tail(args), sep)

\* a successful WriteFile(name, a1, ..., an), n >= 2, on a file puts the
\* arguments, sep between each two, at the end of its contents
WriteFileAppends(sep) ==
    LET name == ret'.args[1]
        f    == FileCalled(currentDirectory, name)
    IN  (Returned("WriteFile") /\ ret'.err = NoError /\ Len(ret'.args) > 2 /\ f # nil) =>
            files'[f].contents = files[f].contents \o Glued(Tail(ret'.args), sep)

(***************************************************************************)
(* C10 as claimed: one WriteFile(name, a1, ..., an) with several data      *)
(* arguments puts exactly a1 a2 ... an at the end of the contents, no byte *)
(* between or around the arguments.                                        *)
(***************************************************************************)
C10_WriteFileConcatenates == [][WriteFileAppends(<<>>)]_vars

(***************************************************************************)
(* C10 amended: one WriteFile(name, a1, ..., an) with several data         *)
(* arguments puts a1 " " a2 " " ... " " an at the end of the contents:     *)
(* one space between each two arguments, no byte before the first or after *)
(* the last.                                                               *)
(***************************************************************************)
C10_WriteFileJoinsWithSpaces == [][WriteFileAppends(<<" ">>)]_vars

\* WriteFile("a", ",", "x") has put ", x" after an "x" written before
C10_Witness ==
    /\ ret.op = "WriteFile"
    /\ ret.err = NoError
    /\ Len(ret.args) = 3
    /\ \E f \in Reachable :
          /\ ~files[f].isDirectory
          /\ files[f].name = ret.args[1]
          /\ files[f].contents = <<"x", ",", " ", "x">>

\* the bytes a WriteFile call with these arguments has to append
DataOf(args) == Glued(Tail(args), <<" ">>)

FileTooLarge == "Exceeded max file size: size=%d, max=%d"

\* WriteFile on a child file succeeds iff contents and data fit the budget,
\* and a refused write leaves every File as it was
WriteWithinBudget ==
    LET f     == FileCalled(currentDirectory, ret'.args[1])
        total == Len(files[f].contents) + Len(DataOf(ret'.args))
    IN  (Returned("WriteFile") /\ f # nil) =>
            /\ (ret'.err = NoError) <=> (total <= MaxFileSize)
            /\ (ret'.err # NoError) =>
                  /\ ret'.err.fmt = FileTooLarge
                  /\ files' = files

C12_WriteFileNeedsChildFile ==
    [][(Returned("WriteFile") /\ FileCalled(currentDirectory, ret'.args[1]) = nil) =>
          /\ ret'.err = Error("File %s does not exist", ret'.args[1])
          /\ UNCHANGED fsVars
      ]_vars

\* the File that ReadFile(name) reads: the live target of the link called
\* name, else the child of the current directory under name, else nil
FileRead(name) ==
    IF name \in DOMAIN links /\ linkObjs[links[name]].target # nil
    THEN linkObjs[links[name]].target
    ELSE IF name \in DOMAIN files[currentDirectory].children
    THEN files[currentDirectory].children[name]
    ELSE nil

\* contents as ReadFile is to show them: the first MaxFileReadSize characters
\* and the suffix when they are longer, else all of them
Shown(contents) ==
    IF Len(contents) > MaxFileReadSize
    THEN SubSeq(contents, 1, MaxFileReadSize) \o TruncatedSuffix
    ELSE contents

(***************************************************************************)
(* C13: ReadFile on a file whose contents are longer than MaxFileReadSize  *)
(* returns exactly their first MaxFileReadSize characters followed by the  *)
(* truncation suffix, whatever the characters; shorter contents are        *)
(* returned unchanged; and ReadFile never changes the stored contents.     *)
(***************************************************************************)
C13_ReadFileTruncates ==
    [][(Returned("ReadFile") /\ FileRead(ret'.args[1]) # nil) =>
          /\ ret'.err = NoError
          /\ ret'.res = Shown(files[FileRead(ret'.args[1])].contents)
          /\ files' = files
      ]_vars

\* path without the "/" at its two ends
Stripped(path) ==
    LET keep == {i \in 1..Len(path) : path[i] # "/"}
    IN  IF keep = {} THEN <<>>
        ELSE SubSeq(path,
                    CHOOSE i \in keep : \A j \in keep : i <= j,
                    CHOOSE i \in keep : \A j \in keep : j <= i)

\* the child of directory wd under the key name, of either kind, else nil
ChildCalled(wd, name) ==
    IF name \in DOMAIN files[wd].children THEN files[wd].children[name] ELSE nil

NonEmptyDirectory ==
    Error("Method does not support removing non-empty directories. Use the recursive option", <<>>)

RecursiveRemoveOfFile ==
    Error("Method does not support removing files recursively", <<>>)

SymLinksTo(n) ==
    {L \in DOMAIN links : linkObjs[links[L]].isSymLink /\ linkObjs[links[L]].target = n}

\* the names registered for a hard link whose target is n
HardLinksTo(n) ==
    {L \in DOMAIN links : ~linkObjs[links[L]].isSymLink /\ linkObjs[links[L]].target = n}

(***************************************************************************)
(* C15: after an Rm call has removed a node n from the tree, every         *)
(* registered symbolic link whose target was n has its target cleared:     *)
(* the link name is still in the registry and ResolveLinks of it is nil.   *)
(* (The alias that the call itself was given to remove is left aside.)     *)
(***************************************************************************)
C15_RmClearsSymlinks ==
    [][(Returned("Rm") /\ ret'.err = NoError) =>
          \A n \in ReachableFrom(files, {root}) \ ReachableFrom(files', {root}) :
              \A L \in SymLinksTo(n) \ {Stripped(ret'.args[1])} :
                  /\ L \in DOMAIN links'
                  /\ linkObjs'[links'[L]].target = nil
      ]_vars

\* a successful Rm(f, false) of a child file f keeps every hard link to f
\* (withSameName: also the hard link whose name is f) in the registry, on the
\* same link object, with f as its target and the contents of f as they were
HardLinksSurviveRm(withSameName) ==
    LET p == Stripped(ret'.args[1])
        f == FileCalled(currentDirectory, p)
    IN  (Returned("Rm") /\ ret'.args[2] = <<"false">> /\ ret'.err = NoError /\ f # nil) =>
            \A h \in HardLinksTo(f) :
                (withSameName \/ h # p) =>
                    /\ h \in DOMAIN links'
                    /\ links'[h] = links[h]
                    /\ linkObjs'[links'[h]].target = f
                    /\ files'[f].contents = files[f].contents

\* ReadFile(h), h registered with a live target, returns the contents of the
\* target when they are within the display cap, wherever the cursor is
ReadsThroughLink ==
    LET h == ret'.args[1]
        t == linkObjs[links[h]].target
    IN  (Returned("ReadFile") /\ h \in DOMAIN links /\ t # nil
           /\ Len(files[t].contents) <= MaxFileReadSize) =>
            /\ ret'.err = NoError
            /\ ret'.res = files[t].contents

(***************************************************************************)
(* C16 as claimed: after MkFile(f), writes that give f the contents c,     *)
(* CreateHardlink(f, h) and a successful Rm(f, false), the registry still  *)
(* maps h to the same link, whose target is the same File with contents c, *)
(* and ReadFile(h) returns c (when within the display cap) from any        *)
(* current directory.                                                      *)
(***************************************************************************)
C16_HardLinkSurvivesRm ==
    [][HardLinksSurviveRm(TRUE) /\ ReadsThroughLink]_vars

(***************************************************************************)
(* C16 amended: the same, for a link name h other than f.                  *)
(***************************************************************************)
C16_HardLinkOfOtherNameSurvivesRm ==
    [][HardLinksSurviveRm(FALSE) /\ ReadsThroughLink]_vars

\* ReadFile("..") has returned "x" through a hard link to a removed file
C16_Witness ==
    /\ ret = Call("ReadFile", <<DotDot>>, <<"x">>, NoError)
    /\ HardLinksTo(linkObjs[links[DotDot]].target) = {DotDot}
    /\ linkObjs[links[DotDot]].target \notin Reachable
    /\ files[linkObjs[links[DotDot]].target].name = <<"a">>

(***************************************************************************)
(* C17: Rm(path, r), path a registered link name, removes only the alias:  *)
(* the name leaves the registry, and the target of the link and every      *)
(* File of the tree, the children map of the current directory included,   *)
(* are unchanged, for either r.                                            *)
(***************************************************************************)
C17_RmLinkRemovesOnlyAlias ==
    [][LET p == Stripped(ret'.args[1])
       IN  (Returned("Rm") /\ p \in DOMAIN links) =>
               /\ ret'.err = NoError
               /\ DOMAIN links' = DOMAIN links \ {p}
               /\ \A L \in DOMAIN links' : links'[L] = links[L]
               /\ linkObjs' = linkObjs
               /\ files' = files
      ]_vars

\* the maximal runs of characters other than " " in text
Words(text) ==
    {SubSeq(text, r[1], r[2]) : r \in
        {q \in (1..Len(text)) \X (1..Len(text)) :
            /\ q[1] <= q[2]
            /\ \A k \in q[1]..q[2] : text[k] # " "
            /\ q[1] = 1 \/ text[q[1] - 1] = " "
            /\ q[2] = Len(text) \/ text[q[2] + 1] = " "}}

\* the names of the children of n
ChildNames(n) ==
    {files[files[n].children[k]].name : k \in DOMAIN files[n].children}

\* the File a path leads to by the path-resolution rule; nil if it has no
\* segment or a segment fails
Resolved(path) ==
    LET segs == Segments(path)
    IN  IF Len(segs) = 0 \/ FailsAt(StartOf(segs), WalkedOf(segs)) # 0 THEN nil
        ELSE Reached(StartOf(segs), WalkedOf(segs), Len(WalkedOf(segs)))

\* the directory that a successful Ls with these arguments lists
Listed(args) ==
    IF Len(args) = 0 THEN currentDirectory
    ELSE IF args[1] \in DOMAIN links /\ linkObjs[links[args[1]]].target # nil
    THEN linkObjs[links[args[1]]].target
    ELSE Resolved(args[1])

(***************************************************************************)
(* C18: a successful CreateSymlink or CreateHardlink leaves the children   *)
(* map, name, parent and contents of every File and the cursor unchanged;  *)
(* Ls returns the names of the children of the directory it lists, and so  *)
(* no link name that is not the name of a child; and MkFile and MvFile     *)
(* take no registered link name for a file present: with no file of that   *)
(* name in the directory the name is kept as given.                        *)
(***************************************************************************)
C18_LinksOnlyInRegistry ==
    [][/\ (ret = NoCall /\ ret'.op \in {"CreateSymlink", "CreateHardlink"}
             /\ ret'.err = NoError) =>
              /\ currentDirectory' = currentDirectory
              /\ DOMAIN files' = DOMAIN files
              /\ \A n \in DOMAIN files :
                    /\ files'[n].children = files[n].children
                    /\ files'[n].name = files[n].name
                    /\ files'[n].parent = files[n].parent
                    /\ files'[n].contents = files[n].contents
       /\ (Returned("Ls") /\ ret'.err = NoError) =>
              /\ Listed(ret'.args) # nil
              /\ Words(ret'.res) = ChildNames(Listed(ret'.args))
       /\ (Returned("MkFile") /\ ret'.err = NoError
             /\ ret'.args[1] \in DOMAIN links
             /\ FileCalled(currentDirectory, ret'.args[1]) = nil) =>
              /\ ret'.res = ret'.args[1]
              /\ MadeEmptyFile(currentDirectory, ret'.args[1])
       /\ LET name == Stripped(ret'.args[1])
              f    == FileCalled(currentDirectory, name)
              d    == Resolved(Stripped(ret'.args[2]))
          IN  (Returned("MvFile") /\ ret'.err = NoError /\ name \in DOMAIN links
                 /\ d # currentDirectory /\ FileCalled(d, name) = nil) =>
                  /\ name \in DOMAIN files'[d].children
                  /\ files'[d].children[name] = f
                  /\ files'[f].name = name
      ]_vars

\* MkFile("a") has returned "a" while "a" is a registered link name
C18_Witness ==
    /\ ret = Call("MkFile", << <<"a">> >>, <<"a">>, NoError)
    /\ <<"a">> \in DOMAIN links
    /\ FileCalled(currentDirectory, <<"a">>) # nil
    /\ linkObjs[links[<<"a">>]].target # FileCalled(currentDirectory, <<"a">>)

LinkAlreadyExists(L) == Error("Link with name %s already exists", L)

\* the call has registered L for a new link of this kind to t and recorded it on t
MadeLink(t, L, isSymLink) ==
    /\ ret'.err = NoError
    /\ ret'.res = L
    /\ L \in DOMAIN links'
    /\ links'[L] \notin DOMAIN linkObjs
    /\ linkObjs'[links'[L]].target = t
    /\ linkObjs'[links'[L]].isSymLink = isSymLink
    /\ LET recorded == IF isSymLink THEN files'[t].symlinks ELSE files'[t].hardLinks
       IN  L \in DOMAIN recorded /\ recorded[L] = links'[L]

(***************************************************************************)
(* C19: CreateSymlink(target, L) fails unless target is a direct child of  *)
(* the current directory, CreateHardlink(target, L) unless it is a direct  *)
(* child file; each fails with "Link with name L already exists" when the  *)
(* target File already records a link of that kind called L; otherwise L   *)
(* is returned, the link is recorded on the target File and the registry   *)
(* maps L to a link whose target is that File.                             *)
(***************************************************************************)
C19_LinkCreation ==
    [][LET t == ChildCalled(currentDirectory, ret'.args[1])
           L == ret'.args[2]
       IN  /\ Returned("CreateSymlink") =>
                  IF t = nil THEN ret'.err \notin {NoError, LinkAlreadyExists(L)}
                  ELSE IF L \in DOMAIN files[t].symlinks
                  THEN ret'.err = LinkAlreadyExists(L)
                  ELSE MadeLink(t, L, TRUE)
           /\ Returned("CreateHardlink") =>
                  IF t = nil \/ files[t].isDirectory
                  THEN ret'.err \notin {NoError, LinkAlreadyExists(L)}
                  ELSE IF L \in DOMAIN files[t].hardLinks
                  THEN ret'.err = LinkAlreadyExists(L)
                  ELSE MadeLink(t, L, FALSE)
      ]_vars

\* CreateHardlink("a", "a") has been refused: the file a has a hard link a
\* and a symbolic link ".." already
C19_Witness ==
    /\ ret.op = "CreateHardlink"
    /\ ret.err = LinkAlreadyExists(<<"a">>)
    /\ FileCalled(currentDirectory, <<"a">>) # nil
    /\ DOMAIN files[FileCalled(currentDirectory, <<"a">>)].hardLinks = {<<"a">>}
    /\ DOMAIN files[FileCalled(currentDirectory, <<"a">>)].symlinks = {DotDot}

\* MvFile(name, target), name a child file of the current directory and
\* target resolving to a directory d (sameDirToo: the current directory
\* itself included)
MvFileMoves(sameDirToo) ==
    LET name    == Stripped(ret'.args[1])
        wd      == currentDirectory
        f       == FileCalled(wd, name)
        d       == Resolved(Stripped(ret'.args[2]))
        there   == FileCalled(d, name)
        newName == IF there # nil THEN Transformed(name) ELSE name
    IN  (Returned("MvFile") /\ f # nil /\ d # nil /\ files[d].isDirectory
           /\ (sameDirToo \/ d # wd)) =>
            /\ ret'.err = NoError
            /\ newName \in DOMAIN files'[d].children
            /\ files'[d].children[newName] = f
            /\ files'[f].parent = d
            /\ files'[f].name = newName
            /\ files'[f].contents = files[f].contents
            /\ there # nil =>
                  /\ name \in DOMAIN files'[d].children
                  /\ files'[d].children[name] = there
                  /\ files'[there].contents = files[there].contents
                  /\ files'[there].name = name
                  /\ name \notin DOMAIN files'[wd].children

(***************************************************************************)
(* C20 as claimed: MvFile(name, target), name a child file of the current  *)
(* directory and target resolving to a directory d that holds a file       *)
(* called name, succeeds; the moved File gets the collision name and is    *)
(* the child of d under it, with parent d; the file that was in d under    *)
(* name is still there with its contents; and name is no child of the      *)
(* source directory any more.  With no file called name in d the moved     *)
(* file keeps its name.                                                    *)
(***************************************************************************)
C20_MvFileAnyTarget == [][MvFileMoves(TRUE)]_vars

(***************************************************************************)
(* C20 amended: the same, for a directory d other than the current         *)
(* directory.                                                              *)
(***************************************************************************)
C20_MvFile == [][MvFileMoves(FALSE)]_vars

\* MvFile("a", "d") has put a second file a into d, as a1
C20_Witness ==
    /\ ret = Call("MvFile", << <<"a">>, <<"d">> >>, <<"d">>, NoError)
    /\ FileCalled(currentDirectory, <<"a">>) = nil
    /\ ChildCalled(currentDirectory, <<"d">>) # nil
    /\ FileCalled(ChildCalled(currentDirectory, <<"d">>), <<"a">>) # nil
    /\ FileCalled(ChildCalled(currentDirectory, <<"d">>), <<"a", "1">>) # nil
    /\ files[FileCalled(ChildCalled(currentDirectory, <<"d">>), <<"a", "1">>)].name
          = <<"a", "1">>

\* the reachable nodes whose name is n
NodesNamed(n) == {x \in Reachable : files[x].name = n}

(***************************************************************************)
(* C21: FindFileOrDir(n, true), called in a state where exactly one node   *)
(* reachable from the root is named n, returns exactly one path: "/"       *)
(* followed by the names on that node's parent chain joined by "/",        *)
(* whatever the current directory is; and it returns the empty list when   *)
(* no reachable node is named n.                                           *)
(***************************************************************************)
C21_RecursiveSearch ==
    [][LET n == ret'.args[1]
           S == NodesNamed(n)
       IN  (Returned("FindFileOrDir") /\ ret'.args[2] = <<"true">>) =>
               /\ ret'.err = NoError
               /\ S = {} => ret'.res = <<>>
               /\ Cardinality(S) = 1 =>
                      ret'.res = << SlashNames(ChainNames(CHOOSE x \in S : TRUE)) >>
      ]_vars

(***************************************************************************)
(* C22: Cd(L), L a registered symbolic link whose target has been cleared, *)
(* fails with an error and leaves the cursor where it was.                 *)
(***************************************************************************)
C22_CdDanglingLinkFails ==
    [][LET L == ret'.args[1]
       IN  (Returned("Cd") /\ L \in DOMAIN links
              /\ linkObjs[links[L]].isSymLink
              /\ linkObjs[links[L]].target = nil) =>
               /\ ret'.err # NoError
               /\ currentDirectory' = currentDirectory
      ]_vars

\* the live target of the registered link L, nil when L is no link name or
\* its target was cleared
LiveTarget(L) == IF L \in DOMAIN links THEN linkObjs[links[L]].target ELSE nil

(***************************************************************************)
(* C23: with L registered and its target t not nil, Cd(L) succeeds and     *)
(* sets the cursor to t; Ls(L) lists the names of t's children, or fails   *)
(* with "Cannot list contents of ... - not a directory" when t is a file;  *)
(* ReadFile(L) succeeds and returns t's contents (when within the display  *)
(* cap).  This holds in every current directory, a current directory with  *)
(* a child named L of its own included.                                    *)
(***************************************************************************)
C23_LinkTakesPrecedence ==
    [][LET L == ret'.args[1]
           t == LiveTarget(L)
       IN  /\ (Returned("Cd") /\ t # nil) =>
                  /\ ret'.err = NoError
                  /\ currentDirectory' = t
           /\ (Returned("Ls") /\ Len(ret'.args) = 1 /\ t # nil) =>
                  IF files[t].isDirectory
                  THEN /\ ret'.err = NoError
                       /\ Words(ret'.res) = ChildNames(t)
                  ELSE /\ ret'.err = Error("Cannot list contents of %s - not a directory",
                                           files[t].name)
                       /\ ret'.res = <<>>
           /\ (Returned("ReadFile") /\ t # nil
                 /\ Len(files[t].contents) <= MaxFileReadSize) =>
                  /\ ret'.err = NoError
                  /\ ret'.res = files[t].contents
      ]_vars

\* Ls("a") has listed the child d of the link's target, in a directory that
\* has a child a of its own, which is another node
C23_Witness ==
    /\ ret = Call("Ls", << <<"a">> >>, <<"d">>, NoError)
    /\ LiveTarget(<<"a">>) # nil
    /\ ChildCalled(currentDirectory, <<"a">>) # nil
    /\ ChildCalled(currentDirectory, <<"a">>) # LiveTarget(<<"a">>)
    /\ ChildNames(ChildCalled(currentDirectory, <<"a">>)) = {}

(***************************************************************************)
(* C24: MkDir does not look for an existing entry.  When the directory d   *)
(* in which MkDir makes the new directory already has a child, directory   *)
(* or file, under the new name, the call succeeds, d's children holds a    *)
(* fresh empty directory under that name, and the previous node and its    *)
(* whole subtree are no longer reachable from the root.                    *)
(***************************************************************************)
C24_MkDirReplaces ==
    [][LET path   == ret'.args[1]
           segs   == Segments(path)
           n      == Len(segs)
           prefix == SubSeq(segs, 1, n - 1)
           start  == StartOf(prefix)
           walked == WalkedOf(prefix)
           d      == IF n = 1 THEN currentDirectory
                     ELSE IF FailsAt(start, walked) # 0 THEN nil
                     ELSE Reached(start, walked, Len(walked))
           old    == ChildCalled(d, segs[n])
       IN  (Returned("MkDir") /\ n >= 1 /\ d # nil /\ old # nil) =>
               /\ ret'.err = NoError
               /\ \E new \in DOMAIN files' \ DOMAIN files :
                      /\ files'[d].children = MapSet(files[d].children, segs[n], new)
                      /\ files'[new] = NewFile(segs[n], TRUE, d)
               /\ ReachableFrom(files, {old}) \cap ReachableFrom(files', {root}) = {}
      ]_vars

\* MkDir("d") has put an empty directory where a directory d with a child
\* was: that one still has the current directory as its parent and is no
\* child of it any more
C24_Witness ==
    /\ ret = Call("MkDir", << <<"d">> >>, <<"d">>, NoError)
    /\ currentDirectory \in Reachable
    /\ ChildNames(ChildCalled(currentDirectory, <<"d">>)) = {}
    /\ \E x \in DOMAIN files \ Reachable :
           /\ files[x].name = <<"d">>
           /\ files[x].parent = currentDirectory
           /\ DOMAIN files[x].children # {}

(***************************************************************************)
(* C25: the collision rule is applied once in a call.  MkFile(n) in a      *)
(* current directory that holds files called n and transform(n) returns    *)
(* transform(n) and makes the new file under that name; MvFile of the file *)
(* n into another directory that holds files called n and transform(n)     *)
(* installs the moved file there under transform(n).  Neither call makes   *)
(* an entry transform(transform(n)): the directory has the same keys       *)
(* after the call as before.                                               *)
(***************************************************************************)
C25_CollisionRuleOnce ==
    [][/\ LET n  == ret'.args[1]
              wd == currentDirectory
          IN  (Returned("MkFile") /\ FileCalled(wd, n) # nil
                 /\ FileCalled(wd, Transformed(n)) # nil) =>
                  /\ ret'.err = NoError
                  /\ ret'.res = Transformed(n)
                  /\ MadeEmptyFile(wd, Transformed(n))
                  /\ DOMAIN files'[wd].children = DOMAIN files[wd].children
       /\ LET n  == Stripped(ret'.args[1])
              wd == currentDirectory
              f  == FileCalled(wd, n)
              d  == Resolved(Stripped(ret'.args[2]))
          IN  (Returned("MvFile") /\ f # nil /\ d # nil /\ d # wd
                 /\ files[d].isDirectory
                 /\ FileCalled(d, n) # nil
                 /\ FileCalled(d, Transformed(n)) # nil) =>
                  /\ ret'.err = NoError
                  /\ files'[d].children[Transformed(n)] = f
                  /\ files'[f].name = Transformed(n)
                  /\ files'[f].parent = d
                  /\ DOMAIN files'[d].children = DOMAIN files[d].children
      ]_vars

\* MvFile("a", "..") has moved the file a into the parent directory, which
\* held files a and a1: the moved file is its a1 now, named a1, the file
\* that was a1 is no child any more, and there is no a11
C25_Witness ==
    /\ ret = Call("MvFile", << <<"a">>, <<".", ".">> >>, <<".", ".">>, NoError)
    /\ currentDirectory # root
    /\ FileCalled(currentDirectory, <<"a">>) = nil
    /\ FileCalled(root, <<"a">>) # nil
    /\ FileCalled(root, <<"a", "1">>) # nil
    /\ files[FileCalled(root, <<"a", "1">>)].name = <<"a", "1">>
    /\ ChildCalled(root, <<"a", "1", "1">>) = nil
    /\ \E x \in DOMAIN files \ Reachable :
           /\ files[x].name = <<"a", "1">>
           /\ files[x].parent = root
           /\ ~files[x].isDirectory

(***************************************************************************)
(* C26: after any sequence of calls the current directory is a File with   *)
(* isDirectory true: Cd never leaves the cursor on a file, be its argument *)
(* a path or a link name.                                                  *)
(***************************************************************************)
C26_CursorIsDirectory == files[currentDirectory].isDirectory

(***************************************************************************)
(* C27: after any sequence of calls the current directory is reachable     *)
(* from the root through children maps: it is the root, or its parent is   *)
(* reachable and holds it under its name.                                  *)
(***************************************************************************)
C27_CursorReachable ==
    /\ currentDirectory \in Reachable
    /\ currentDirectory # root =>
           ChildCalled(files[currentDirectory].parent, files[currentDirectory].name)
               = currentDirectory

(***************************************************************************)
(* C28: a successful MkFile destroys no entry: every child of the current  *)
(* directory before the call is its child under the same name after it,    *)
(* with its subtree and contents, and the directory has exactly one child  *)
(* more.                                                                   *)
(***************************************************************************)
C28_MkFileKeepsEntries ==
    [][LET wd == currentDirectory
       IN  (Returned("MkFile") /\ ret'.err = NoError) =>
               /\ \A k \in DOMAIN files[wd].children :
                      /\ k \in DOMAIN files'[wd].children
                      /\ files'[wd].children[k] = files[wd].children[k]
                      /\ \A x \in ReachableFrom(files, {files[wd].children[k]}) :
                             x = wd \/ files'[x] = files[x]
               /\ Cardinality(DOMAIN files'[wd].children)
                      = Cardinality(DOMAIN files[wd].children) + 1
      ]_vars

(***************************************************************************)
(* C29: a successful MvFile conserves the nodes: the set of nodes          *)
(* reachable from the root is the same after the call as before, and every *)
(* child of the destination directory, a child directory with the name of  *)
(* the moved file included, is still its child under the same name.        *)
(***************************************************************************)
C29_MvFileConservesNodes ==
    [][LET d == Resolved(Stripped(ret'.args[2]))
           f == FileCalled(currentDirectory, Stripped(ret'.args[1]))
       IN  (Returned("MvFile") /\ ret'.err = NoError) =>
               /\ ReachableFrom(files', {root}) = ReachableFrom(files, {root})
               /\ \A k \in DOMAIN files[d].children :
                      files[d].children[k] # f =>
                          /\ k \in DOMAIN files'[d].children
                          /\ files'[d].children[k] = files[d].children[k]
      ]_vars

(***************************************************************************)
(* C30: no live symbolic link points outside the tree: after any sequence  *)
(* of calls every symbolic link of the registry whose target is not nil    *)
(* has a target that is reachable from the root, the links to descendants  *)
(* of a directory removed by Rm(dir, true) included.                       *)
(***************************************************************************)
C30_LiveSymlinksInTree ==
    \A L \in DOMAIN links :
        (linkObjs[links[L]].isSymLink /\ linkObjs[links[L]].target # nil) =>
            linkObjs[links[L]].target \in Reachable

\* the link objects the File n records under the name L
RecordedLinks(n, L) ==
    {MapGet(files[n].symlinks, L), MapGet(files[n].hardLinks, L)} \ {nil}

(***************************************************************************)
(* C31: the registry and the link records of the nodes agree: a File's     *)
(* symlinks or hardLinks map has the name L iff the registry maps L to     *)
(* that same link object; so every recorded link is the registry's entry   *)
(* of its name, and every registry entry is recorded on some File.         *)
(***************************************************************************)
C31_RegistryAgreesWithRecords ==
    /\ \A n \in DOMAIN files :
           \A L \in DOMAIN files[n].symlinks \cup DOMAIN files[n].hardLinks :
               /\ L \in DOMAIN links
               /\ RecordedLinks(n, L) = {links[L]}
    /\ \A L \in DOMAIN links :
           \E n \in DOMAIN files : links[L] \in RecordedLinks(n, L)

(***************************************************************************)
(* C32: a link name is never rebound without notice: CreateSymlink and     *)
(* CreateHardlink with a linkName that is in the registry already fail,    *)
(* and the registry maps linkName to the same link with the same target as *)
(* before, whatever File the new target is and whatever the kind of the    *)
(* link there is.                                                          *)
(***************************************************************************)
C32_NoRebinding ==
    [][LET L == ret'.args[2]
       IN  ((Returned("CreateSymlink") \/ Returned("CreateHardlink"))
              /\ L \in DOMAIN links) =>
               /\ ret'.err # NoError
               /\ L \in DOMAIN links'
               /\ links'[L] = links[L]
               /\ linkObjs'[links[L]].target = linkObjs[links[L]].target
      ]_vars

(***************************************************************************)
(* C33: Cd(path) and Ls(path) are total: for every path, those that split  *)
(* into no segment ("", "/", blanks) included, the call returns a result   *)
(* or an error value and never aborts the program, and the cursor is where *)
(* it was when the call fails.                                             *)
(***************************************************************************)
C33_PathCallsAreTotal ==
    [][((Returned("Cd") \/ (Returned("Ls") /\ Len(ret'.args) = 1))) =>
           /\ ret'.err # Panic
           /\ ret'.err # NoError => currentDirectory' = currentDirectory
      ]_vars

\* the set of the paths in a list of paths
PathSet(paths) == {paths[i] : i \in DOMAIN paths}

(***************************************************************************)
(* C34: the recursive search is deterministic as a set: for a tree and a   *)
(* name n, FindFileOrDir(n, true) returns the same set of paths for every  *)
(* iteration order of the children maps; so the set a call has returned is *)
(* the set of every list the search may return in the state of the call.   *)
(***************************************************************************)
C34_SearchSetIsDeterministic ==
    [][(Returned("FindFileOrDir") /\ ret'.args[2] = <<"true">>) =>
           \A found \in BFS(files, root, ret'.args[1]) :
               PathSet(FileSliceToString(files, found, root)) = PathSet(ret'.res)
      ]_vars

====
